---- MODULE Spec2Model ----
(***************************************************************************)
(* Model of ScreenController (src/main.py): the auto-blank scheduler, the  *)
(* saved-geometry map (original_settings), the schedule configuration and  *)
(* the OS display driver they talk to.                                     *)
(***************************************************************************)
EXTENDS Integers, Sequences, FiniteSets, TLC

VARIABLES
    connected,          \* OS: outputs that have a physical display attached
    regOk,              \* OS: ENUM_REGISTRY_SETTINGS queries succeed
    enumOk,             \* OS: EnumDisplayDevices answers
    joinOk,             \* the preview thread ends within the 2 s a join waits for it
    renamed,            \* OS: the driver has exchanged the names of outputs 2 and 3
    osMode,             \* OS: per output "on" | "offFail" | "offZero" | "none"
    now,                \* the wall clock the last tick read, <<hour, minute, second>>
    monitors,           \* self.monitors
    preview_widgets,    \* self.preview_widgets
    config,             \* self.config (sections keyed by the stable key)
    original_settings,  \* self.original_settings
    detection_interval,         \* self.detection_interval
    auto_screen_timer_running,  \* self.auto_screen_timer_running
    preview_running,            \* self.preview_running
    timer_thread,               \* the thread of timer_loop: "running" | "exited"
    preview_thread,             \* the thread of update_previews: "running" | "exited"
    window,                     \* self.root: "open" | "destroyed"
    stale_previews,     \* update_previews threads alive that self.preview_thread has left behind
    inflight,           \* per thread, where it is inside turn_off_screen
    schedBlanked,       \* history: devices the scheduler has blanked and nobody restored
    last,               \* history: what the last operation did
    steps               \* number of operations performed so far

vars == <<connected, regOk, enumOk, joinOk, renamed, osMode, now, monitors, preview_widgets, config,
          original_settings, detection_interval, auto_screen_timer_running,
          preview_running, timer_thread, preview_thread, window,
          stale_previews, inflight, schedBlanked, last, steps>>

\* The loops and the window.
lifeVars == <<detection_interval, auto_screen_timer_running, preview_running,
              timer_thread, preview_thread, window, stale_previews, inflight>>

\* What refresh_screens leaves alone of them.
schedVars == <<detection_interval, auto_screen_timer_running, timer_thread, window, inflight>>

\* What no handler of the program writes.
osVars == <<connected, regOk, enumOk, joinOk, renamed>>

(***************************************************************************)
(* The OS side: three adapter outputs, \\.\DISPLAY1..3, in the order       *)
(* EnumDisplayDevices(None, i) returns them.  An output with no display    *)
(* attached is still enumerated; its mode queries fail.                    *)
(***************************************************************************)
DevIdx == {1, 2, 3}

NoDevice == 0

\* The adapter output a device name stands for.
Port(d) == IF renamed /\ d \in {2, 3} THEN 5 - d ELSE d

\* The desktop mode stored for each output (resolution and position).
Native(d) ==
    CASE Port(d) = 1 -> [width |-> 1920, height |-> 1080, position_x |-> 0,    position_y |-> 0]
      [] Port(d) = 2 -> [width |-> 1280, height |-> 1024, position_x |-> 1920, position_y |-> 0]
      [] Port(d) = 3 -> [width |-> 1280, height |-> 1024, position_x |-> 3200, position_y |-> 0]

\* The EDID name of the display attached to each output.
EdidName(d) ==
    CASE Port(d) = 1 -> "DELL"
      [] Port(d) = 2 -> "AOC"
      [] Port(d) = 3 -> "AOC"

\* A blanked mode as the driver reports it when the query does not fail.
ZeroMode(d) == [Native(d) EXCEPT !.width = 0, !.height = 0]

Failed == [ok |-> FALSE]

\* win32api.EnumDisplaySettings(device, ENUM_CURRENT_SETTINGS)
CurrentSettings(mode, d) ==
    CASE mode[d] = "on"      -> [ok |-> TRUE, g |-> Native(d)]
      [] mode[d] = "offZero" -> [ok |-> TRUE, g |-> ZeroMode(d)]
      [] OTHER               -> Failed

\* win32api.EnumDisplaySettings(device, ENUM_REGISTRY_SETTINGS): a blank is
\* applied with flags 0, so the registry keeps the desktop mode.
RegistrySettings(d) ==
    IF regOk /\ d \in connected THEN [ok |-> TRUE, g |-> Native(d)] ELSE Failed

IsBlanked(mode, d) == mode[d] \in {"offFail", "offZero"}

(***************************************************************************)
(* Sequences                                                               *)
(***************************************************************************)
Min(S) == CHOOSE x \in S : \A y \in S : x <= y

RECURSIVE SetToSeq(_)
SetToSeq(S) == IF S = {} THEN <<>> ELSE <<Min(S)>> \o SetToSeq(S \ {Min(S)})

SameGeometry(g, m) ==
    /\ g.position_x = m.x
    /\ g.position_y = m.y
    /\ g.width = m.width
    /\ g.height = m.height

(***************************************************************************)
(* Monitor Registry                                                        *)
(***************************************************************************)
\* get_display_devices: the EDID names, one per attached display.
DisplayDeviceNames == [i \in 1..Cardinality(connected) |-> EdidName(SetToSeq(connected)[i])]

\* get_screen_info: screeninfo lists the active displays; the i-th gets id i
\* and the i-th EDID name.
GetScreenInfo(mode) ==
    LET active == SetToSeq({d \in connected : mode[d] = "on"})
        names  == DisplayDeviceNames
    IN  [i \in 1..Len(active) |->
            [id         |-> i,
             name       |-> IF i <= Len(names) THEN names[i] ELSE "display",
             width      |-> Native(active[i]).width,
             height     |-> Native(active[i]).height,
             x          |-> Native(active[i]).position_x,
             y          |-> Native(active[i]).position_y,
             is_primary |-> (i = 1)]]

\* get_monitor_config_key
get_monitor_config_key(monitor) == <<monitor.name, monitor.width, monitor.height>>

\* One device of the enumeration loop of get_device_name_by_monitor.
DeviceMatches(monitor, d, mode, saved) ==
    LET cur == CurrentSettings(mode, d)
        reg == RegistrySettings(d)
    IN  IF cur.ok THEN SameGeometry(cur.g, monitor)
        ELSE IF reg.ok THEN SameGeometry(reg.g, monitor)
        ELSE d \in DOMAIN saved /\ SameGeometry(saved[d], monitor)

\* get_device_name_by_monitor: the first device of the enumeration that
\* matches, else the device at index monitor['id'] - 1, else None.  When
\* EnumDisplayDevices raises, the loop breaks at once and the index
\* fallback raises too.
get_device_name_by_monitor(monitor, mode, saved) ==
    LET hits == {d \in DevIdx : DeviceMatches(monitor, d, mode, saved)}
    IN  IF ~enumOk THEN NoDevice
        ELSE IF hits # {} THEN Min(hits)
        ELSE IF monitor.id \in DevIdx THEN monitor.id
        ELSE NoDevice

(***************************************************************************)
(* Schedule Store                                                          *)
(***************************************************************************)
\* Texts.  The decimal numerals of 0..59 and the zero-padded ones; any other
\* text ("" of an emptied field, "x") is not a number.
NumStr ==
    <<"0", "1", "2", "3", "4", "5", "6", "7", "8", "9", "10",
      "11", "12", "13", "14", "15", "16", "17", "18", "19", "20",
      "21", "22", "23", "24", "25", "26", "27", "28", "29", "30",
      "31", "32", "33", "34", "35", "36", "37", "38", "39", "40",
      "41", "42", "43", "44", "45", "46", "47", "48", "49", "50",
      "51", "52", "53", "54", "55", "56", "57", "58", "59">>

Padded == <<"00", "01", "02", "03", "04", "05", "06", "07", "08", "09">>

\* The texts int() accepts, with their values.
IntOf ==
    [text \in {NumStr[n + 1] : n \in 0..59} \cup {Padded[n + 1] : n \in 0..9} \cup {"-1"} |->
        IF text = "-1" THEN -1
        ELSE CHOOSE n \in 0..59 : NumStr[n + 1] = text \/ (n < 10 /\ Padded[n + 1] = text)]

\* int(text) returns
IsInt(text) == text \in DOMAIN IntOf

\* int(text)
ToInt(text) == IntOf[text]

\* str(n)
Str(n) == NumStr[n + 1]

\* text.split(':').  A time string is kept as the list of its
\* colon-separated parts, which determines it.
split(text) == IF text = "1:30" THEN <<"1", "30">> ELSE <<text>>

\* f"{hour}:{min}:{sec}" of three field texts
FormatTime(fields) == split(fields[1]) \o split(fields[2]) \o split(fields[3])

\* str(auto_enabled)
StrBool(b) == IF b THEN "True" ELSE "False"

\* config.getboolean returns (it raises ValueError on any other text)
IsBoolText(text) == text \in {"True", "False"}

\* The entry load_monitor_config returns when the key has no section or
\* reading the section raised.
DefaultEntry == [auto_enabled |-> FALSE, start_time |-> <<"17", "0", "0">>,
                 end_time |-> <<"7", "0", "0">>]

\* load_monitor_config.  A section is a function from the options it holds
\* to their values.
load_monitor_config(monitor, cfg) ==
    LET key == get_monitor_config_key(monitor)
    IN  IF key \notin DOMAIN cfg THEN DefaultEntry
        ELSE IF "auto_enabled" \in DOMAIN cfg[key] /\ ~IsBoolText(cfg[key].auto_enabled)
        THEN DefaultEntry
        ELSE [auto_enabled |-> IF "auto_enabled" \in DOMAIN cfg[key]
                               THEN cfg[key].auto_enabled = "True" ELSE FALSE,
              start_time   |-> IF "start_time" \in DOMAIN cfg[key]
                               THEN cfg[key].start_time ELSE <<"22", "00", "00">>,
              end_time     |-> IF "end_time" \in DOMAIN cfg[key]
                               THEN cfg[key].end_time ELSE <<"08", "00", "00">>]

\* Mutant: the enabled flag is not written.
save_monitor_config_KeepsEnabled(monitor, auto_enabled, start_time, end_time, cfg) ==
    LET key == get_monitor_config_key(monitor)
    IN  [k \in DOMAIN cfg \cup {key} |->
            IF k = key
            THEN [auto_enabled |-> IF key \in DOMAIN cfg /\ "auto_enabled" \in DOMAIN cfg[key]
                                   THEN cfg[key].auto_enabled ELSE "False",
                  start_time |-> start_time,
                  end_time |-> end_time]
            ELSE cfg[k]]

\* A section without options, as add_section creates it.
EmptySection == [o \in {} |-> ""]

\* config[key][option] = value
SetOption(section, option, value) ==
    [o \in DOMAIN section \cup {option} |-> IF o = option THEN value ELSE section[o]]

\* The interpolation of ConfigParser refuses a value with a lone '%': the
\* assignment raises ValueError.
SetRaises(time) == \E j \in DOMAIN time : time[j] = "%"

\* save_monitor_config: add_section when the key is new, then the options
\* one assignment after the other, then save_config.  An assignment that
\* raises leaves the options set before it and skips the rest; both callers
\* swallow the exception.
save_monitor_config(monitor, auto_enabled, start_time, end_time, cfg) ==
    LET key == get_monitor_config_key(monitor)
        s0  == IF key \in DOMAIN cfg THEN cfg[key] ELSE EmptySection
        s1  == SetOption(s0, "auto_enabled", StrBool(auto_enabled))
        s2  == IF SetRaises(start_time) THEN s1 ELSE SetOption(s1, "start_time", start_time)
        s3  == IF SetRaises(start_time) \/ SetRaises(end_time) THEN s2
               ELSE SetOption(s2, "end_time", end_time)
    IN  [k \in DOMAIN cfg \cup {key} |-> IF k = key THEN s3 ELSE cfg[k]]

\* The section of the polling interval.
SettingsKey == <<"SETTINGS">>

\* str(interval)
IntText(n) == IF n = -1 THEN "-1" ELSE Str(n)

\* load_config: getint of [SETTINGS] detection_interval with fallback 5; 5
\* as well when there is no file or no section, or when getint raises.
load_config(cfg) ==
    IF SettingsKey \notin DOMAIN cfg THEN 5
    ELSE IF "detection_interval" \notin DOMAIN cfg[SettingsKey] THEN 5
    ELSE IF IsInt(cfg[SettingsKey].detection_interval)
         THEN ToInt(cfg[SettingsKey].detection_interval)
    ELSE 5

\* parts[i] if len(parts) > i else default
PartOr(parts, i, default) == IF Len(parts) >= i THEN parts[i] ELSE default

\* create_widgets: one widget per monitor, for the first two monitors only;
\* start and end are the texts of the hour, minute and second variables.
create_widgets(mons, cfg) ==
    LET n == IF Len(mons) >= 2 THEN 2 ELSE Len(mons)
    IN  [i \in 1..n |->
            LET c == load_monitor_config(mons[i], cfg)
            IN  [monitor      |-> mons[i],
                 auto_enabled |-> c.auto_enabled,
                 start        |-> <<PartOr(c.start_time, 1, "18"), PartOr(c.start_time, 2, "00"),
                                    PartOr(c.start_time, 3, "00")>>,
                 end          |-> <<PartOr(c.end_time, 1, "07"), PartOr(c.end_time, 2, "00"),
                                    PartOr(c.end_time, 3, "00")>>]]

\* The first widget whose monitor equals the given one (0 when none does).
FindWidget(ws, monitor) ==
    LET hits == {i \in 1..Len(ws) : ws[i].monitor = monitor}
    IN  IF hits = {} THEN 0 ELSE Min(hits)

(***************************************************************************)
(* State Tracker and Display Driver calls                                  *)
(***************************************************************************)
EmptyMap == [d \in {} |-> Native(1)]

Put(saved, d, g) == [e \in DOMAIN saved \cup {d} |-> IF e = d THEN g ELSE saved[e]]

\* The log of driver calls of an operation: the call, its target, the size
\* it asks for and whether it succeeded.
SetModeOp(d, w, h, ok) == [op |-> "setMode", dev |-> d, width |-> w, height |-> h, ok |-> ok]
RefreshAllOp(ok)       == [op |-> "refreshAll", dev |-> NoDevice, width |-> 0, height |-> 0, ok |-> ok]
ReapplyOp(d, ok)       == [op |-> "reapply", dev |-> d, width |-> Native(d).width,
                           height |-> Native(d).height, ok |-> ok]

\* What the driver does with the calls of one operation: the zero-size mode
\* change is rejected, or accepted leaving a device whose mode query fails
\* or one that reports zero size; ChangeDisplaySettings(None, 0) succeeds or
\* not; a per-device re-apply succeeds or not.
OsOutcomes == [blank : {"reject", "fail", "zero"}, refresh : BOOLEAN, reapply : BOOLEAN]

\* Mutant: a saved entry does not count as evidence of a blanked display.
is_monitor_on_IgnoreEntry(monitor, mode, saved) ==
    LET device_name == get_device_name_by_monitor(monitor, mode, saved)
        cur         == CurrentSettings(mode, device_name)
    IN  IF device_name = NoDevice THEN TRUE
        ELSE IF cur.ok THEN cur.g.width > 0 /\ cur.g.height > 0
        ELSE FALSE

\* Mutant: an unresolvable monitor is taken for blanked.
is_monitor_on_FailClosed(monitor, mode, saved) ==
    LET device_name == get_device_name_by_monitor(monitor, mode, saved)
        cur         == CurrentSettings(mode, device_name)
    IN  IF device_name = NoDevice THEN FALSE
        ELSE IF device_name \in DOMAIN saved THEN FALSE
        ELSE IF cur.ok THEN cur.g.width > 0 /\ cur.g.height > 0
        ELSE FALSE

\* is_monitor_on
is_monitor_on(monitor, mode, saved) ==
    LET device_name == get_device_name_by_monitor(monitor, mode, saved)
        cur         == CurrentSettings(mode, device_name)
    IN  IF device_name = NoDevice THEN TRUE
        ELSE IF device_name \in DOMAIN saved THEN FALSE
        ELSE IF cur.ok THEN cur.g.width > 0 /\ cur.g.height > 0
        ELSE FALSE

\* Mutant: the zero-size mode is applied without recording the current mode.
turn_off_screen_NoRecord(monitor, st, os) ==
    LET device_name == get_device_name_by_monitor(monitor, st.mode, st.saved)
        cur         == CurrentSettings(st.mode, device_name)
    IN  IF device_name = NoDevice THEN st
        ELSE IF ~cur.ok THEN st
        ELSE [st EXCEPT
                !.ops   = Append(st.ops, SetModeOp(device_name, 0, 0, os.blank # "reject")),
                !.mode  = IF os.blank = "reject" THEN st.mode
                          ELSE [st.mode EXCEPT ![device_name] =
                                    IF os.blank = "fail" THEN "offFail" ELSE "offZero"]]

\* Mutant: a device whose current mode cannot be read is blanked all the
\* same, with nothing recorded.
turn_off_screen_ApplyUnread(monitor, st, os) ==
    LET device_name == get_device_name_by_monitor(monitor, st.mode, st.saved)
        cur         == CurrentSettings(st.mode, device_name)
    IN  IF device_name = NoDevice THEN st
        ELSE IF ~cur.ok
        THEN [st EXCEPT !.ops = Append(st.ops, SetModeOp(device_name, 0, 0, os.blank # "reject"))]
        ELSE [st EXCEPT
                !.saved = Put(st.saved, device_name, cur.g),
                !.ops   = Append(st.ops, SetModeOp(device_name, 0, 0, os.blank # "reject")),
                !.mode  = IF os.blank = "reject" THEN st.mode
                          ELSE [st.mode EXCEPT ![device_name] =
                                    IF os.blank = "fail" THEN "offFail" ELSE "offZero"],
                !.sched = IF os.blank = "reject" \/ ~st.bySched THEN st.sched
                          ELSE st.sched \cup {device_name}]

\* turn_off_screen, on the running state st of an operation.
turn_off_screen(monitor, st, os) ==
    LET device_name == get_device_name_by_monitor(monitor, st.mode, st.saved)
        cur         == CurrentSettings(st.mode, device_name)
    IN  IF device_name = NoDevice THEN st
        ELSE IF ~cur.ok THEN st
        ELSE [st EXCEPT
                !.saved = Put(st.saved, device_name, cur.g),
                !.ops   = Append(st.ops, SetModeOp(device_name, 0, 0, os.blank # "reject")),
                !.mode  = IF os.blank = "reject" THEN st.mode
                          ELSE [st.mode EXCEPT ![device_name] =
                                    IF os.blank = "fail" THEN "offFail" ELSE "offZero"],
                !.sched = IF os.blank = "reject" \/ ~st.bySched THEN st.sched
                          ELSE st.sched \cup {device_name}]

\* The devices method 2 of force_refresh_displays re-applies: those whose
\* current mode reads with a non-zero size.
ReapplyDevices(mode) ==
    {d \in DevIdx : CurrentSettings(mode, d).ok
                    /\ CurrentSettings(mode, d).g.width > 0
                    /\ CurrentSettings(mode, d).g.height > 0}

\* Mutant: a successful ChangeDisplaySettings(None, 0) wakes nothing.
force_refresh_displays_WakesNothing(st, os) ==
    IF os.refresh
    THEN [ok |-> TRUE,
          st |-> [st EXCEPT !.ops = Append(st.ops, RefreshAllOp(TRUE)), !.sched = {}]]
    ELSE LET devs == SetToSeq(ReapplyDevices(st.mode))
         IN  [ok |-> os.reapply /\ Len(devs) > 0,
              st |-> [st EXCEPT
                        !.ops = Append(st.ops, RefreshAllOp(FALSE))
                                \o [i \in 1..Len(devs) |-> ReapplyOp(devs[i], os.reapply)]]]

\* force_refresh_displays: [ok, st]
force_refresh_displays(st, os) ==
    IF os.refresh
    THEN [ok |-> TRUE,
          st |-> [st EXCEPT
                    !.ops   = Append(st.ops, RefreshAllOp(TRUE)),
                    !.mode  = [d \in DevIdx |-> IF d \in connected THEN "on" ELSE "none"],
                    !.sched = {}]]
    ELSE LET devs == SetToSeq(ReapplyDevices(st.mode))
         IN  [ok |-> os.reapply /\ Len(devs) > 0,
              st |-> [st EXCEPT
                        !.ops = Append(st.ops, RefreshAllOp(FALSE))
                                \o [i \in 1..Len(devs) |-> ReapplyOp(devs[i], os.reapply)]]]

\* Which per-device replays of restore_all_screens the driver accepts.
ReplayOutcomes == [DevIdx -> BOOLEAN]

\* The devices the replay loop of restore_all_screens reaches: those with an
\* entry that are enumerated and whose current or registry mode reads.
ReplayDevices(st) ==
    {d \in DOMAIN st.saved :
        /\ enumOk
        /\ d \in DevIdx
        /\ CurrentSettings(st.mode, d).ok \/ RegistrySettings(d).ok}

\* restore_all_screens: nothing without entries; force_refresh_displays and,
\* when it succeeds, the map cleared; else every reachable device gets its
\* saved geometry re-applied, and the map is cleared when any of these
\* calls succeeded.
restore_all_screens(st, os, replay) ==
    LET r    == force_refresh_displays(st, os)
        devs == SetToSeq(ReplayDevices(r.st))
        won  == {d \in ReplayDevices(r.st) : replay[d]}
    IN  IF DOMAIN st.saved = {} THEN st
        ELSE IF r.ok THEN [r.st EXCEPT !.saved = EmptyMap]
        ELSE [r.st EXCEPT
                !.ops   = r.st.ops \o [i \in 1..Len(devs) |->
                              SetModeOp(devs[i], st.saved[devs[i]].width,
                                        st.saved[devs[i]].height, replay[devs[i]])],
                !.mode  = [d \in DevIdx |->
                              IF d \in won /\ st.saved[d].width > 0 /\ st.saved[d].height > 0
                              THEN "on" ELSE r.st.mode[d]],
                !.sched = r.st.sched \ won,
                !.saved = IF won # {} THEN EmptyMap ELSE r.st.saved]

\* refresh_screens: the flag cleared and the preview thread joined for at
\* most 2 s, the widget list emptied, the monitors enumerated, the widgets
\* rebuilt, the flag set again and a new preview thread started.  A thread
\* that outlasted the join finds the flag set again and loops on.  On a
\* destroyed window winfo_children raises: the widgets stay empty, the flag
\* cleared and no thread is started.
refresh_screens(st) ==
    LET mons  == GetScreenInfo(st.mode)
        alive == st.preview_thread = "running"
    IN  IF window = "destroyed"
        THEN [st EXCEPT !.monitors        = mons,
                        !.widgets         = <<>>,
                        !.cleared         = TRUE,
                        !.preview_running = FALSE,
                        !.preview_thread  = IF alive /\ joinOk THEN "exited"
                                            ELSE st.preview_thread]
        ELSE [st EXCEPT !.monitors        = mons,
                        !.widgets         = create_widgets(mons, config),
                        !.cleared         = TRUE,
                        !.preview_running = TRUE,
                        !.preview_thread  = "running",
                        !.stale           = IF alive /\ ~joinOk THEN st.stale + 1
                                            ELSE st.stale]

\* Mutant: the map is cleared whether or not the refresh succeeded.
reset_displays_ClearsAnyway(st, os) ==
    LET r == force_refresh_displays(st, os)
    IN  IF r.ok THEN refresh_screens([r.st EXCEPT !.saved = EmptyMap])
        ELSE [r.st EXCEPT !.saved = EmptyMap]

\* reset_displays
reset_displays(st, os) ==
    LET r == force_refresh_displays(st, os)
    IN  IF r.ok THEN refresh_screens([r.st EXCEPT !.saved = EmptyMap])
        ELSE r.st

(***************************************************************************)
(* Scheduler Loop                                                          *)
(***************************************************************************)
\* hour * 3600 + min * 60 + sec
TotalSec(t) == t[1] * 3600 + t[2] * 60 + t[3]

\* Mutant: the same-day window excludes its end.
in_sleep_time_ExclusiveEnd(start, end, current) ==
    IF TotalSec(start) <= TotalSec(end)
    THEN TotalSec(start) <= TotalSec(current) /\ TotalSec(current) < TotalSec(end)
    ELSE TotalSec(current) >= TotalSec(start) \/ TotalSec(current) <= TotalSec(end)

\* Mutant: the window crossing midnight excludes its end.
in_sleep_time_WrapExclusiveEnd(start, end, current) ==
    IF TotalSec(start) <= TotalSec(end)
    THEN TotalSec(start) <= TotalSec(current) /\ TotalSec(current) <= TotalSec(end)
    ELSE TotalSec(current) >= TotalSec(start) \/ TotalSec(current) < TotalSec(end)

\* in_sleep_time of check_auto_screen_off
in_sleep_time(start, end, current) ==
    LET current_total_sec == TotalSec(current)
        start_total_sec   == TotalSec(start)
        end_total_sec     == TotalSec(end)
    IN  IF start_total_sec <= end_total_sec
        THEN start_total_sec <= current_total_sec /\ current_total_sec <= end_total_sec
        ELSE current_total_sec >= start_total_sec \/ current_total_sec <= end_total_sec

\* The transition function of check_auto_screen_off for widget k, once the
\* widget is known to be enabled.
EvalWidget(widget_info, k, st, os) ==
    LET start == [f \in 1..3 |-> ToInt(widget_info.start[f])]
        end   == [f \in 1..3 |-> ToInt(widget_info.end[f])]
        in    == in_sleep_time(start, end, st.now)
        on    == is_monitor_on(widget_info.monitor, st.mode, st.saved)
        st1   == [st EXCEPT !.evals = Append(st.evals,
                    [idx |-> k, monitor |-> widget_info.monitor,
                     start |-> start, end |-> end,
                     in_sleep_time |-> in, on |-> on])]
    IN  IF \E f \in 1..3 : ~IsInt(widget_info.start[f]) \/ ~IsInt(widget_info.end[f])
        THEN [st EXCEPT !.raised = Append(st.raised, k)]
        ELSE IF in
        THEN IF on THEN turn_off_screen(widget_info.monitor, st1, os) ELSE st1
        ELSE IF ~on THEN reset_displays(st1, os) ELSE st1

\* Mutant: the loop does not skip widgets whose auto-blank is disabled.
TickStep_NoEnabledCheck(widget_info, k, st, os) == EvalWidget(widget_info, k, st, os)

\* The body of the for loop of check_auto_screen_off for widget k.
TickStep(widget_info, k, st, os) ==
    IF ~widget_info.auto_enabled THEN st
    ELSE EvalWidget(widget_info, k, st, os)

\* for widget_info in self.preview_widgets: the loop runs over the list
\* object it started with, which refresh_screens empties in place.
RECURSIVE TickLoop(_, _, _, _)
TickLoop(ws, k, st, os) ==
    IF k > Len(ws) \/ st.cleared THEN st
    ELSE TickLoop(ws, k + 1, TickStep(ws[k], k, st, os), os)

\* The running state an operation starts from.
Begin(bySched) ==
    [saved    |-> original_settings,
     mode     |-> osMode,
     monitors |-> monitors,
     widgets  |-> preview_widgets,
     preview_running |-> preview_running,
     preview_thread  |-> preview_thread,
     stale    |-> stale_previews,
     cleared  |-> FALSE,
     ops      |-> <<>>,
     evals    |-> <<>>,
     raised   |-> <<>>,
     sched    |-> schedBlanked,
     bySched  |-> bySched,
     now      |-> now]

Quiet(act) == [act |-> act, ops |-> <<>>, evals |-> <<>>, raised |-> <<>>]

\* Commit the running state of an operation.
Commit(act, st) ==
    /\ original_settings' = st.saved
    /\ osMode' = st.mode
    /\ monitors' = st.monitors
    /\ preview_widgets' = st.widgets
    /\ preview_running' = st.preview_running
    /\ preview_thread' = st.preview_thread
    /\ stale_previews' = st.stale
    /\ schedBlanked' = st.sched
    /\ now' = st.now
    /\ last' = [act |-> act, ops |-> st.ops, evals |-> st.evals, raised |-> st.raised]
    /\ steps' = steps + 1

\* check_auto_screen_off, with datetime.now() reading current_time
check_auto_screen_off(current_time, os) ==
    LET st == [Begin(TRUE) EXCEPT !.now = current_time]
    IN  IF Len(preview_widgets) = 0 THEN st
        ELSE TickLoop(preview_widgets, 1, st, os)

(***************************************************************************)
(* The values the model draws                                              *)
(***************************************************************************)
\* Number of operations in a run.
MaxSteps == 3

\* Wall-clock readings of datetime.now().
Clock == {<<6, 30, 0>>, <<12, 0, 0>>, <<21, 0, 0>>}

\* What the user types into the hour, minute and second fields.
FieldVals(f) ==
    CASE f = 1 -> {"6", "20"}
      [] f = 2 -> {"0"}
      [] f = 3 -> {"0"}

KeyA == <<"DELL", 1920, 1080>>
KeyB == <<"AOC", 1280, 1024>>

EntryDay   == [auto_enabled |-> "True", start_time |-> <<"17", "0", "0">>,
               end_time |-> <<"7", "0", "0">>]
EntryNight == [auto_enabled |-> "True", start_time |-> <<"20", "0", "0">>,
               end_time |-> <<"6", "0", "0">>]

\* screen_config.ini as an earlier run may have left it.
PersistedConfigs ==
    { [k \in {} |-> DefaultEntry],
      [k \in {KeyB} |-> EntryNight],
      [k \in {KeyA, KeyB} |-> IF k = KeyA THEN EntryDay ELSE EntryNight] }

\* No thread is inside turn_off_screen.
Threads == {"timer", "ui"}

Idle == [pc |-> "idle"]

NoneInFlight == [t \in Threads |-> Idle]

\* __init__ after load_config: the interval of the file, both loops started.
LoopsStarted ==
    /\ detection_interval = load_config(config)
    /\ auto_screen_timer_running = TRUE
    /\ preview_running = TRUE
    /\ timer_thread = "running"
    /\ preview_thread = "running"
    /\ window = "open"
    /\ stale_previews = 0
    /\ inflight = NoneInFlight

(***************************************************************************)
(* Initial state: __init__                                                 *)
(***************************************************************************)
Init ==
    /\ renamed = FALSE
    /\ connected \in (SUBSET DevIdx) \ {{}}
    /\ regOk \in BOOLEAN
    /\ enumOk = TRUE
    /\ joinOk = TRUE
    /\ osMode = [d \in DevIdx |-> IF d \in connected THEN "on" ELSE "none"]
    /\ now = <<12, 0, 0>>
    /\ config \in PersistedConfigs
    /\ monitors = GetScreenInfo(osMode)
    /\ preview_widgets = create_widgets(monitors, config)
    /\ original_settings = EmptyMap
    /\ LoopsStarted
    /\ schedBlanked = {}
    /\ last = Quiet("init")
    /\ steps = 0

(***************************************************************************)
(* Operations                                                              *)
(***************************************************************************)
\* One iteration of timer_loop, the clock reading one of `times`.
\* time.sleep raises ValueError on a negative length, in the try block and
\* again in the except block of timer_loop, which ends the thread.
SleepRaises(interval) == interval < 0

TickAt(times) ==
    \E t \in times, os \in OsOutcomes :
        /\ steps < MaxSteps
        /\ timer_thread = "running"
        /\ auto_screen_timer_running
        /\ Commit("tick", check_auto_screen_off(t, os))
        /\ timer_thread' = IF SleepRaises(detection_interval) THEN "exited" ELSE "running"
        /\ UNCHANGED <<osVars, config, detection_interval, auto_screen_timer_running,
                       window, inflight>>

Tick == TickAt(Clock)

\* The manual-blank button of widget i.
ManualBlank ==
    \E i \in 1..Len(preview_widgets), os \in OsOutcomes :
        /\ steps < MaxSteps
        /\ os.refresh /\ os.reapply
        /\ window = "open"
        /\ Commit("manual", turn_off_screen(preview_widgets[i].monitor, Begin(FALSE), os))
        /\ UNCHANGED <<osVars, schedVars, config>>

\* The reset button and the Ctrl+Alt+X hotkey.
ResetDisplays ==
    \E os \in OsOutcomes :
        /\ steps < MaxSteps
        /\ os.blank = "reject"
        /\ window = "open"
        /\ Commit("reset", reset_displays(Begin(FALSE), os))
        /\ UNCHANGED <<osVars, schedVars, config>>

\* The refresh button.
RefreshScreens ==
    /\ steps < MaxSteps
    /\ window = "open"
    /\ Commit("refresh", refresh_screens(Begin(FALSE)))
    /\ UNCHANGED <<osVars, schedVars, config>>

\* A call of restore_all_screens (set_duplicate_mode_api and
\* set_extend_mode_api start with it).
RestoreAllScreens ==
    \E os \in OsOutcomes, replay \in ReplayOutcomes :
        /\ steps < MaxSteps
        /\ os.blank = "reject"
        /\ window = "open"
        /\ Commit("restore", restore_all_screens(Begin(FALSE), os, replay))
        /\ UNCHANGED <<osVars, schedVars, config>>

\* toggle_auto_screen_off, from the auto button of widget i.
ToggleAuto ==
    \E i \in 1..Len(preview_widgets) :
        LET k == FindWidget(preview_widgets, preview_widgets[i].monitor)
            w == preview_widgets[k]
        IN  /\ steps < MaxSteps
            /\ window = "open"
            /\ preview_widgets' = [preview_widgets EXCEPT ![k].auto_enabled = ~w.auto_enabled]
            /\ config' = save_monitor_config(w.monitor, ~w.auto_enabled,
                                             FormatTime(w.start), FormatTime(w.end), config)
            /\ last' = Quiet("toggle")
            /\ steps' = steps + 1
            /\ UNCHANGED <<osVars, lifeVars, osMode, now, monitors, original_settings, schedBlanked>>

\* A write to one of the six time variables of widget i (the spinboxes are
\* disabled while auto-blank is enabled), then on_time_change ->
\* save_time_config.
EditTimeWith(texts) ==
    \E i \in 1..Len(preview_widgets), which \in {"start", "end"}, f \in 1..3 :
      \E v \in texts[f] :
        LET ws == IF which = "start"
                  THEN [preview_widgets EXCEPT ![i].start[f] = v]
                  ELSE [preview_widgets EXCEPT ![i].end[f] = v]
            k  == FindWidget(ws, ws[i].monitor)
        IN  /\ steps < MaxSteps
            /\ window = "open"
            /\ ~preview_widgets[i].auto_enabled
            /\ preview_widgets' = ws
            /\ config' = save_monitor_config(ws[k].monitor, ws[k].auto_enabled,
                                             FormatTime(ws[k].start), FormatTime(ws[k].end),
                                             config)
            /\ last' = Quiet("edit")
            /\ steps' = steps + 1
            /\ UNCHANGED <<osVars, lifeVars, osMode, now, monitors, original_settings, schedBlanked>>

\* What the user types into the polling-interval box.
IntervalTexts == {"10", "0", "-1", "x"}

\* save_detection_interval: int() of the text of the box becomes the
\* interval and is written to [SETTINGS]; a text that is not a number raises
\* and leaves both alone.
save_detection_interval(text, interval, cfg) ==
    IF IsInt(text)
    THEN [interval |-> ToInt(text),
          config   |-> [k \in DOMAIN cfg \cup {SettingsKey} |->
                           IF k = SettingsKey
                           THEN SetOption(IF SettingsKey \in DOMAIN cfg THEN cfg[SettingsKey]
                                          ELSE EmptySection,
                                          "detection_interval", IntText(ToInt(text)))
                           ELSE cfg[k]]]
    ELSE [interval |-> interval, config |-> cfg]

\* A write to detection_interval_var, then save_detection_interval.
SetInterval ==
    \E text \in IntervalTexts :
        /\ steps < MaxSteps
        /\ window = "open"
        /\ detection_interval' =
               save_detection_interval(text, detection_interval, config).interval
        /\ config' = save_detection_interval(text, detection_interval, config).config
        /\ last' = Quiet("interval")
        /\ steps' = steps + 1
        /\ UNCHANGED <<osVars, osMode, now, monitors, preview_widgets,
                       original_settings, schedBlanked, auto_screen_timer_running,
                       preview_running, timer_thread, preview_thread, window,
                       stale_previews, inflight>>

\* A call on_closing makes, in the shape of the driver-call log.
CallOp(name) == [op |-> name, dev |-> NoDevice, width |-> 0, height |-> 0, ok |-> TRUE]

\* on_closing: both flags cleared, the hotkeys unhooked, the window destroyed.
OnClosing ==
    /\ steps < MaxSteps
    /\ window = "open"
    /\ preview_running' = FALSE
    /\ auto_screen_timer_running' = FALSE
    /\ window' = "destroyed"
    /\ last' = [Quiet("closing") EXCEPT
                   !.ops = <<CallOp("unhook_all_hotkeys"), CallOp("destroy")>>]
    /\ steps' = steps + 1
    /\ UNCHANGED <<osVars, osMode, now, monitors, preview_widgets, config,
                   original_settings, schedBlanked, detection_interval,
                   timer_thread, preview_thread, stale_previews, inflight>>

\* The driver reassigns device names: the displays of outputs 2 and 3
\* exchange \\.\DISPLAY2 and \\.\DISPLAY3.  Nothing of the program runs.
Reassign ==
    /\ steps < MaxSteps
    /\ renamed' = ~renamed
    /\ connected' = {IF d \in {2, 3} THEN 5 - d ELSE d : d \in connected}
    /\ osMode' = [d \in DevIdx |-> osMode[IF d \in {2, 3} THEN 5 - d ELSE d]]
    /\ last' = Quiet("reassign")
    /\ steps' = steps + 1
    /\ UNCHANGED <<regOk, enumOk, joinOk, lifeVars, now, monitors, preview_widgets, config,
                   original_settings, schedBlanked>>

\* timer_loop reads a cleared flag at the head of its loop and returns.
TimerExit ==
    /\ steps < MaxSteps
    /\ timer_thread = "running"
    /\ ~auto_screen_timer_running
    /\ timer_thread' = "exited"
    /\ last' = Quiet("timer_exit")
    /\ steps' = steps + 1
    /\ UNCHANGED <<osVars, osMode, now, monitors, preview_widgets, config,
                   original_settings, schedBlanked, detection_interval,
                   auto_screen_timer_running, preview_running, preview_thread, window,
                   stale_previews, inflight>>

\* update_previews reads a cleared flag at the head of its loop and returns.
PreviewExit ==
    /\ steps < MaxSteps
    /\ preview_thread = "running"
    /\ ~preview_running
    /\ preview_thread' = "exited"
    /\ last' = Quiet("preview_exit")
    /\ steps' = steps + 1
    /\ UNCHANGED <<osVars, osMode, now, monitors, preview_widgets, config,
                   original_settings, schedBlanked, detection_interval,
                   auto_screen_timer_running, preview_running, timer_thread, window,
                   stale_previews, inflight>>

(***************************************************************************)
(* turn_off_screen statement by statement, for the scheduler thread and    *)
(* the UI thread side by side.  No statement of it takes a lock, so the    *)
(* threads interleave between any two.                                     *)
(***************************************************************************)
\* The rest of the state, which the steps inside turn_off_screen leave alone.
BlankFrame == <<osVars, config, monitors, preview_widgets, detection_interval,
                auto_screen_timer_running, preview_running, timer_thread, preview_thread,
                window, stale_previews>>

\* turn_off_screen is called: by check_auto_screen_off for an enabled widget
\* inside its window whose monitor is on, or by the manual-blank button.
BlankCall ==
    \E t \in Threads, i \in 1..Len(preview_widgets), time \in Clock :
        LET w == preview_widgets[i]
        IN  /\ steps < MaxSteps
            /\ inflight[t].pc = "idle"
            /\ t = "ui" => window = "open" /\ time = now
            /\ t = "timer" =>
                   /\ timer_thread = "running"
                   /\ auto_screen_timer_running
                   /\ w.auto_enabled
                   /\ \A f \in 1..3 : IsInt(w.start[f]) /\ IsInt(w.end[f])
                   /\ in_sleep_time([f \in 1..3 |-> ToInt(w.start[f])],
                                    [f \in 1..3 |-> ToInt(w.end[f])], time)
                   /\ is_monitor_on(w.monitor, osMode, original_settings)
            /\ inflight' = [inflight EXCEPT ![t] = [pc |-> "resolve", monitor |-> w.monitor]]
            /\ now' = time
            /\ last' = Quiet("call")
            /\ steps' = steps + 1
            /\ UNCHANGED <<BlankFrame, osMode, original_settings, schedBlanked>>

\* device_name = self.get_device_name_by_monitor(monitor); return when None
BlankResolve ==
    \E t \in Threads :
        LET c == inflight[t]
            d == get_device_name_by_monitor(c.monitor, osMode, original_settings)
        IN  /\ c.pc = "resolve"
            /\ inflight' = [inflight EXCEPT ![t] =
                    IF d = NoDevice THEN Idle
                    ELSE [pc |-> "read", monitor |-> c.monitor, device_name |-> d]]
            /\ UNCHANGED <<BlankFrame, osMode, original_settings, schedBlanked, now, last, steps>>

\* current_settings = win32api.EnumDisplaySettings(device_name, ...); the
\* exception of a failed query ends the call.
BlankRead ==
    \E t \in Threads :
        LET c == inflight[t]
            q == CurrentSettings(osMode, c.device_name)
        IN  /\ c.pc = "read"
            /\ inflight' = [inflight EXCEPT ![t] =
                    IF ~q.ok THEN Idle
                    ELSE [pc |-> "check", monitor |-> c.monitor, device_name |-> c.device_name,
                          current_settings |-> q.g]]
            /\ UNCHANGED <<BlankFrame, osMode, original_settings, schedBlanked, now, last, steps>>

\* if not hasattr(self, 'original_settings'): self.original_settings = {}
BlankCheck ==
    \E t \in Threads :
        /\ inflight[t].pc = "check"
        /\ inflight' = [inflight EXCEPT ![t].pc = "store"]
        /\ UNCHANGED <<BlankFrame, osMode, original_settings, schedBlanked, now, last, steps>>

\* self.original_settings[device_name] = {...}
BlankStore ==
    \E t \in Threads :
        LET c == inflight[t]
        IN  /\ c.pc = "store"
            /\ original_settings' = Put(original_settings, c.device_name, c.current_settings)
            /\ inflight' = [inflight EXCEPT ![t].pc = "apply"]
            /\ UNCHANGED <<BlankFrame, osMode, schedBlanked, now, last, steps>>

\* result = win32api.ChangeDisplaySettingsEx(device_name, new_settings, 0)
BlankApply ==
    \E t \in Threads, blank \in {"reject", "fail", "zero"} :
        LET c == inflight[t]
        IN  /\ c.pc = "apply"
            /\ osMode' = IF blank = "reject" THEN osMode
                          ELSE [osMode EXCEPT ![c.device_name] =
                                    IF blank = "fail" THEN "offFail" ELSE "offZero"]
            /\ schedBlanked' = IF blank = "reject" \/ t # "timer" THEN schedBlanked
                                ELSE schedBlanked \cup {c.device_name}
            /\ last' = [Quiet("blank") EXCEPT
                           !.ops = <<SetModeOp(c.device_name, 0, 0, blank # "reject")>>]
            /\ inflight' = [inflight EXCEPT ![t] = Idle]
            /\ UNCHANGED <<BlankFrame, original_settings, now, steps>>

EditTime == EditTimeWith(<<FieldVals(1), FieldVals(2), FieldVals(3)>>)

Next ==
    \/ Tick
    \/ ManualBlank
    \/ ResetDisplays
    \/ RefreshScreens
    \/ ToggleAuto
    \/ EditTime

Spec == Init /\ [][Next]_vars

(***************************************************************************)
(* The window computation on its own: one display pair, a persisted        *)
(* schedule with any start and end of TimeGrid, ticks at any time of it.   *)
(***************************************************************************)
TimeGrid == {<<0, 0, 0>>, <<6, 59, 59>>, <<7, 0, 0>>, <<7, 0, 1>>, <<12, 0, 0>>,
             <<22, 0, 0>>, <<23, 30, 0>>, <<23, 59, 59>>}

WindowInit ==
    /\ renamed = FALSE
    /\ connected = {1, 2}
    /\ regOk = TRUE
    /\ enumOk = TRUE
    /\ joinOk = TRUE
    /\ osMode = [d \in DevIdx |-> IF d \in connected THEN "on" ELSE "none"]
    /\ now = <<12, 0, 0>>
    /\ config \in {[k \in {KeyB} |->
                        [auto_enabled |-> "True",
                         start_time   |-> <<Str(s[1]), Str(s[2]), Str(s[3])>>,
                         end_time     |-> <<Str(e[1]), Str(e[2]), Str(e[3])>>]] :
                      s \in TimeGrid, e \in TimeGrid}
    /\ monitors = GetScreenInfo(osMode)
    /\ preview_widgets = create_widgets(monitors, config)
    /\ original_settings = EmptyMap
    /\ LoopsStarted
    /\ schedBlanked = {}
    /\ last = Quiet("init")
    /\ steps = 0

WindowNext == TickAt(TimeGrid)

WindowSpec == WindowInit /\ [][WindowNext]_vars

(***************************************************************************)
(* The schedule store on its own: a schedule file an earlier run or an     *)
(* editor left, with whole sections, sections that lack an option and a    *)
(* section whose auto_enabled is not a boolean; toggles and edits of the   *)
(* time fields save, a refresh loads.                                      *)
(***************************************************************************)
StoreSections ==
    { EntryDay,
      [start_time |-> <<"20", "0", "0">>, end_time |-> <<"6", "0", "0">>],
      [auto_enabled |-> "True", end_time |-> <<"6", "0", "0">>],
      [auto_enabled |-> "True", start_time |-> <<"20", "0", "0">>],
      [auto_enabled |-> "maybe", start_time |-> <<"20", "0", "0">>,
       end_time |-> <<"6", "0", "0">>] }

StoreFiles ==
    {[k \in {} |-> EntryDay]}
    \cup {[k \in {KeyA} |-> a] : a \in StoreSections}
    \cup {[k \in {KeyA, KeyB} |-> IF k = KeyA THEN a ELSE EntryNight] : a \in StoreSections}

\* What the user types into the time fields.
StoreVals(f) ==
    CASE f = 1 -> {"07", "22", "1:30"}
      [] f = 2 -> {"30", "", "%"}
      [] f = 3 -> {"59"}

StoreInit ==
    /\ renamed = FALSE
    /\ connected = {1, 2}
    /\ regOk = TRUE
    /\ enumOk = TRUE
    /\ joinOk = TRUE
    /\ osMode = [d \in DevIdx |-> IF d \in connected THEN "on" ELSE "none"]
    /\ now = <<12, 0, 0>>
    /\ config \in StoreFiles
    /\ monitors = GetScreenInfo(osMode)
    /\ preview_widgets = create_widgets(monitors, config)
    /\ original_settings = EmptyMap
    /\ LoopsStarted
    /\ schedBlanked = {}
    /\ last = Quiet("init")
    /\ steps = 0

StoreNext ==
    \/ ToggleAuto
    \/ EditTimeWith(<<StoreVals(1), StoreVals(2), StoreVals(3)>>)
    \/ RefreshScreens

StoreSpec == StoreInit /\ [][StoreNext]_vars

(***************************************************************************)
(* Driver reassignment: ticks and manual blanks with the device names of   *)
(* outputs 2 and 3 exchanged in between.                                   *)
(***************************************************************************)
ReassignInit ==
    /\ renamed = FALSE
    /\ connected \in {{1, 2}, {1, 2, 3}}
    /\ regOk \in BOOLEAN
    /\ enumOk = TRUE
    /\ joinOk = TRUE
    /\ osMode = [d \in DevIdx |-> IF d \in connected THEN "on" ELSE "none"]
    /\ now = <<12, 0, 0>>
    /\ config = [k \in {KeyA, KeyB} |-> IF k = KeyA THEN EntryDay ELSE EntryNight]
    /\ monitors = GetScreenInfo(osMode)
    /\ preview_widgets = create_widgets(monitors, config)
    /\ original_settings = EmptyMap
    /\ LoopsStarted
    /\ schedBlanked = {}
    /\ last = Quiet("init")
    /\ steps = 0

ReassignNext ==
    \/ Tick
    \/ ManualBlank
    \/ RefreshScreens
    \/ Reassign

ReassignSpec == ReassignInit /\ [][ReassignNext]_vars

(***************************************************************************)
(* The life of the loops: ticks, the polling interval and shutdown, with   *)
(* two displays and a schedule file whose first entry may hold a start     *)
(* hour that is not a number, or which holds a [SETTINGS] section.         *)
(***************************************************************************)
\* [SETTINGS] as an earlier run or an editor may have left it.
PersistedSettings ==
    {EmptySection} \cup {[detection_interval |-> t] : t \in {"10", "0", "-1", "x"}}

EntryBadHour == [auto_enabled |-> "True", start_time |-> <<"x", "0", "0">>,
                 end_time |-> <<"7", "0", "0">>]

LifeInit ==
    /\ renamed = FALSE
    /\ connected = {1, 2}
    /\ regOk = TRUE
    /\ enumOk = TRUE
    /\ joinOk = TRUE
    /\ osMode = [d \in DevIdx |-> IF d \in connected THEN "on" ELSE "none"]
    /\ now = <<12, 0, 0>>
    /\ config \in {[k \in {KeyA, KeyB} |-> IF k = KeyA THEN e ELSE EntryNight] :
                      e \in {EntryDay, EntryBadHour}}
                   \cup {[k \in {KeyA, KeyB, SettingsKey} |->
                             IF k = KeyA THEN EntryDay
                             ELSE IF k = KeyB THEN EntryNight ELSE settings] :
                         settings \in PersistedSettings}
    /\ monitors = GetScreenInfo(osMode)
    /\ preview_widgets = create_widgets(monitors, config)
    /\ original_settings = EmptyMap
    /\ LoopsStarted
    /\ schedBlanked = {}
    /\ last = Quiet("init")
    /\ steps = 0

LifeNext ==
    \/ Tick
    \/ SetInterval
    \/ OnClosing
    \/ TimerExit
    \/ PreviewExit

LifeSpec == LifeInit /\ [][LifeNext]_vars

(***************************************************************************)
(* The resolver and is_monitor_on on their own: the monitor list of the    *)
(* last refresh (every display awake then), and an OS that has since       *)
(* blanked or kept any of the displays, with or without an entry of the    *)
(* saved-geometry map, and that may refuse to enumerate its devices.       *)
(***************************************************************************)
AllAwake == [d \in DevIdx |-> IF d \in connected THEN "on" ELSE "none"]

ResolveInit ==
    /\ renamed = FALSE
    /\ connected \in (SUBSET DevIdx) \ {{}}
    /\ regOk \in BOOLEAN
    /\ enumOk \in BOOLEAN
    /\ joinOk = TRUE
    /\ osMode \in [DevIdx -> {"on", "offFail", "offZero", "none"}]
    /\ \A d \in DevIdx : (osMode[d] = "none") <=> (d \notin connected)
    /\ now = <<12, 0, 0>>
    /\ config = [k \in {KeyA, KeyB} |-> IF k = KeyA THEN EntryDay ELSE EntryNight]
    /\ monitors = GetScreenInfo(AllAwake)
    /\ preview_widgets = create_widgets(monitors, config)
    /\ original_settings \in {[d \in D |-> Native(d)] : D \in SUBSET connected}
    /\ LoopsStarted
    /\ schedBlanked = {}
    /\ last = Quiet("init")
    /\ steps = 0

ResolveNext == TickAt(Clock)

ResolveSpec == ResolveInit /\ [][ResolveNext]_vars

(***************************************************************************)
(* Blank on its own: two displays, the monitor list of the last refresh,   *)
(* and an OS that has since blanked or kept either display, with or        *)
(* without a saved entry, and that may refuse to enumerate its devices;    *)
(* manual blanks and ticks.                                                *)
(***************************************************************************)
BlankInit ==
    /\ renamed = FALSE
    /\ connected \in {{1, 2}, {2, 3}}
    /\ regOk \in BOOLEAN
    /\ enumOk \in BOOLEAN
    /\ joinOk = TRUE
    /\ osMode \in [DevIdx -> {"on", "offFail", "offZero", "none"}]
    /\ \A d \in DevIdx : (osMode[d] = "none") <=> (d \notin connected)
    /\ now = <<12, 0, 0>>
    /\ config = [k \in {KeyA, KeyB} |-> IF k = KeyA THEN EntryDay ELSE EntryNight]
    /\ monitors = GetScreenInfo(AllAwake)
    /\ preview_widgets = create_widgets(monitors, config)
    /\ original_settings \in {[d \in D |-> Native(d)] : D \in SUBSET connected}
    /\ LoopsStarted
    /\ schedBlanked = {}
    /\ last = Quiet("init")
    /\ steps = 0

BlankNext ==
    \/ ManualBlank
    \/ Tick

BlankSpec == BlankInit /\ [][BlankNext]_vars

(***************************************************************************)
(* Restore on its own: the states of BlankInit, manual blanks and calls of *)
(* restore_all_screens.                                                    *)
(***************************************************************************)
RestoreNext ==
    \/ ManualBlank
    \/ RestoreAllScreens

RestoreSpec == BlankInit /\ [][RestoreNext]_vars

(***************************************************************************)
(* The preview loop: two displays with both schedules enabled, a preview   *)
(* thread that may or may not end within the join of refresh_screens, and  *)
(* the three ways refresh_screens is reached: the refresh button, the      *)
(* reset button or hotkey, and the scheduler thread through                *)
(* reset_displays.                                                         *)
(***************************************************************************)
PreviewInit ==
    /\ renamed = FALSE
    /\ connected = {1, 2}
    /\ regOk = TRUE
    /\ enumOk = TRUE
    /\ joinOk \in BOOLEAN
    /\ osMode = [d \in DevIdx |-> IF d \in connected THEN "on" ELSE "none"]
    /\ now = <<12, 0, 0>>
    /\ config = [k \in {KeyA, KeyB} |-> IF k = KeyA THEN EntryDay ELSE EntryNight]
    /\ monitors = GetScreenInfo(osMode)
    /\ preview_widgets = create_widgets(monitors, config)
    /\ original_settings = EmptyMap
    /\ LoopsStarted
    /\ schedBlanked = {}
    /\ last = Quiet("init")
    /\ steps = 0

PreviewNext ==
    \/ RefreshScreens
    \/ ResetDisplays
    \/ ManualBlank
    \/ Tick

PreviewSpec == PreviewInit /\ [][PreviewNext]_vars

(***************************************************************************)
(* The two threads inside turn_off_screen: two displays, both schedules    *)
(* enabled, blanks asked for by the scheduler and by the manual button.    *)
(***************************************************************************)
ThreadNext ==
    \/ BlankCall
    \/ BlankResolve
    \/ BlankRead
    \/ BlankCheck
    \/ BlankStore
    \/ BlankApply

ThreadSpec == ReassignInit /\ [][ThreadNext]_vars

(***************************************************************************)
(* Vocabulary of the claims                                                *)
(***************************************************************************)
\* The output a monitor record describes.
DeviceOf(m) == CHOOSE d \in DevIdx : SameGeometry(Native(d), m)

GeometryOf(m) == [width |-> m.width, height |-> m.height, position_x |-> m.x, position_y |-> m.y]

SecondsOfDay(t) == 3600 * t[1] + 60 * t[2] + t[3]

Logged(ops, P(_)) == \E j \in DOMAIN ops : P(ops[j])

\* The time three field texts spell.
TimeOf(fields) == [f \in 1..3 |-> ToInt(fields[f])]

InWindow(start, end, t) ==
    IF SecondsOfDay(start) <= SecondsOfDay(end)
    THEN SecondsOfDay(start) <= SecondsOfDay(t) /\ SecondsOfDay(t) <= SecondsOfDay(end)
    ELSE SecondsOfDay(t) >= SecondsOfDay(start) \/ SecondsOfDay(t) <= SecondsOfDay(end)

IsRefreshAll(o) == o.op = "refreshAll"
IsSetMode(o)    == o.op = "setMode"

\* force_refresh_displays returned True in the operation that logged ops:
\* ChangeDisplaySettings(None, 0) succeeded, or a per-device re-apply did.
ForceRefreshSucceeded(ops) ==
    \E j \in DOMAIN ops : ops[j].op \in {"refreshAll", "reapply"} /\ ops[j].ok

\* The schedule entry of the i-th monitor: its widget's, or the persisted
\* one when the monitor has no widget.
EntryEnabled(i) ==
    IF i <= Len(preview_widgets) THEN preview_widgets[i].auto_enabled
    ELSE load_monitor_config(monitors[i], config).auto_enabled

(***************************************************************************)
(* C1: with monitors A (auto-blank disabled) and B (enabled, 20:00:00 to   *)
(* 06:00:00), both awake and nothing saved, a tick at 21:00:00 issues one  *)
(* driver call, the zero-size mode for B's device, records B's pre-blank   *)
(* geometry under B's device and leaves A's device and entry alone.        *)
(***************************************************************************)
C1_Scenario(a, b) ==
    /\ Len(monitors) = 2
    /\ Len(preview_widgets) = 2
    /\ ~preview_widgets[a].auto_enabled
    /\ preview_widgets[b].auto_enabled
    /\ preview_widgets[b].start = <<"20", "0", "0">>
    /\ preview_widgets[b].end = <<"6", "0", "0">>
    /\ osMode[DeviceOf(preview_widgets[a].monitor)] = "on"
    /\ osMode[DeviceOf(preview_widgets[b].monitor)] = "on"
    /\ DOMAIN original_settings = {}

C1_Post(a, b) ==
    LET mB == preview_widgets[b].monitor
        dA == DeviceOf(preview_widgets[a].monitor)
        dB == DeviceOf(mB)
    IN  /\ Len(last'.ops) = 1
        /\ last'.ops[1].op = "setMode"
        /\ last'.ops[1].dev = dB
        /\ last'.ops[1].width = 0
        /\ last'.ops[1].height = 0
        /\ DOMAIN original_settings' = {dB}
        /\ original_settings'[dB] = GeometryOf(mB)
        /\ last'.ops[1].ok => IsBlanked(osMode', dB)
        /\ \A d \in DevIdx \ {dB} : osMode'[d] = osMode[d]
        /\ osMode'[dA] = "on"

C1_TickBlanksBOnly ==
    [][\A a, b \in {1, 2} :
          (a # b /\ C1_Scenario(a, b) /\ last'.act = "tick" /\ now' = <<21, 0, 0>>)
              => C1_Post(a, b)]_vars

C1_Witness ==
    /\ last.act = "tick"
    /\ now = <<21, 0, 0>>
    /\ Len(preview_widgets) = 2
    /\ ~preview_widgets[1].auto_enabled
    /\ preview_widgets[2].auto_enabled
    /\ preview_widgets[2].start = <<"20", "0", "0">>
    /\ preview_widgets[2].end = <<"6", "0", "0">>
    /\ last.ops = <<SetModeOp(2, 0, 0, TRUE)>>
    /\ DOMAIN original_settings = {2}
    /\ original_settings[2] = Native(2)
    /\ osMode[1] = "on"
    /\ IsBlanked(osMode, 2)

(***************************************************************************)
(* C3: when start <= end (in seconds of the day), the in-window flag a     *)
(* tick computes for a widget is start <= now /\ now <= end.               *)
(***************************************************************************)
C3_SameDayWindow ==
    last.act = "tick" =>
        \A j \in DOMAIN last.evals :
            LET e == last.evals[j]
                S == SecondsOfDay(e.start)
                E == SecondsOfDay(e.end)
                N == SecondsOfDay(now)
            IN  S <= E => (e.in_sleep_time <=> (S <= N /\ N <= E))

C3_Witness ==
    /\ last.act = "tick"
    /\ \E j \in DOMAIN last.evals :
          /\ SecondsOfDay(last.evals[j].start) < SecondsOfDay(last.evals[j].end)
          /\ last.evals[j].end = now
          /\ last.evals[j].in_sleep_time

(***************************************************************************)
(* C4: when start > end (the window crosses midnight), the in-window flag  *)
(* is now >= start \/ now <= end; for 22:00:00 to 07:00:00, 23:30:00 and   *)
(* 07:00:00 are inside and 12:00:00 is outside.                            *)
(***************************************************************************)
C4_MidnightWindow ==
    last.act = "tick" =>
        \A j \in DOMAIN last.evals :
            LET e == last.evals[j]
                S == SecondsOfDay(e.start)
                E == SecondsOfDay(e.end)
                N == SecondsOfDay(now)
            IN  /\ S > E => (e.in_sleep_time <=> (N >= S \/ N <= E))
                /\ (e.start = <<22, 0, 0>> /\ e.end = <<7, 0, 0>>) =>
                      /\ now = <<23, 30, 0>> => e.in_sleep_time
                      /\ now = <<12, 0, 0>> => ~e.in_sleep_time
                      /\ now = <<7, 0, 0>> => e.in_sleep_time

C4_Witness ==
    /\ last.act = "tick"
    /\ now = <<7, 0, 0>>
    /\ \E j \in DOMAIN last.evals :
          /\ last.evals[j].start = <<22, 0, 0>>
          /\ last.evals[j].end = <<7, 0, 0>>
          /\ last.evals[j].in_sleep_time

(***************************************************************************)
(* C2: if the scheduler blanked an enabled monitor B and the clock has     *)
(* left B's window, the next tick runs the global restore pass and leaves  *)
(* no saved-geometry entry for B's device.                                 *)
(***************************************************************************)
C2_TickRestoresAndClears ==
    [][\A i \in 1..Len(preview_widgets) :
          LET w == preview_widgets[i]
              d == DeviceOf(w.monitor)
          IN  ( /\ w.auto_enabled
                /\ d \in schedBlanked
                /\ IsBlanked(osMode, d)
                /\ d \in DOMAIN original_settings
                /\ last'.act = "tick"
                /\ ~InWindow(TimeOf(w.start), TimeOf(w.end), now') )
              => ( /\ Logged(last'.ops, IsRefreshAll)
                   /\ d \notin DOMAIN original_settings' )]_vars

(***************************************************************************)
(* C5: every saved-geometry entry has width > 0 and height > 0: blanking   *)
(* an already blanked monitor never stores a zero-size reading.            *)
(***************************************************************************)
C5_SavedNeverZero ==
    \A d \in DOMAIN original_settings :
        original_settings[d].width > 0 /\ original_settings[d].height > 0

C7_EntryOnlyWhileBlanked ==
    \A d \in DOMAIN original_settings : IsBlanked(osMode, d)

(***************************************************************************)
(* C8: a tick evaluates the transition function exactly once for every     *)
(* connected monitor whose schedule entry is enabled.                      *)
(***************************************************************************)
C8_EachEnabledEvaluatedOnce ==
    [][last'.act = "tick" =>
          \A i \in 1..Len(monitors) :
              EntryEnabled(i) =>
                  Cardinality({j \in DOMAIN last'.evals :
                                  last'.evals[j].monitor = monitors[i]}) = 1]_vars

(***************************************************************************)
(* C9: when the driver rejected the zero-size mode of an enabled monitor   *)
(* in one tick, the next tick, still inside the window with the monitor    *)
(* still awake, issues the zero-size mode for it again.                    *)
(***************************************************************************)
C9_RejectedBlankRetried ==
    [][\A i \in 1..Len(preview_widgets) :
          LET w == preview_widgets[i]
              d == DeviceOf(w.monitor)
          IN  ( /\ last.act = "tick"
                /\ \E j \in DOMAIN last.ops :
                      IsSetMode(last.ops[j]) /\ last.ops[j].dev = d /\ ~last.ops[j].ok
                /\ \E j \in DOMAIN last.evals : last.evals[j].monitor = w.monitor
                /\ w.auto_enabled
                /\ osMode[d] = "on"
                /\ last'.act = "tick"
                /\ InWindow(TimeOf(w.start), TimeOf(w.end), now') )
              => \E j \in DOMAIN last'.ops :
                    IsSetMode(last'.ops[j]) /\ last'.ops[j].dev = d]_vars

(***************************************************************************)
(* C10: when the restore pass of a tick finds forceRefreshAll failing, it  *)
(* replays the saved geometry of every tracked device with a per-device    *)
(* setMode call.                                                           *)
(***************************************************************************)
C10_FallbackReplay ==
    [][(last'.act = "tick" /\ Logged(last'.ops, IsRefreshAll)
                          /\ ~ForceRefreshSucceeded(last'.ops)) =>
          \A d \in DOMAIN original_settings :
            IsBlanked(osMode, d) =>
              \E j \in DOMAIN last'.ops :
                  /\ IsSetMode(last'.ops[j])
                  /\ last'.ops[j].dev = d
                  /\ last'.ops[j].width = original_settings[d].width
                  /\ last'.ops[j].height = original_settings[d].height]_vars

(***************************************************************************)
(* C11: for a monitor whose device resolves, is_monitor_on answers "on"    *)
(* exactly when the current-mode query succeeds with a non-zero size and   *)
(* the resolved device has no saved-geometry entry.  The first evaluation  *)
(* of a tick reads the state the tick started in.                          *)
(***************************************************************************)
C11_AwakeIffModeAndNoEntry ==
    [][(last'.act = "tick" /\ Len(last'.evals) >= 1) =>
          LET e == last'.evals[1]
              d == get_device_name_by_monitor(e.monitor, osMode, original_settings)
              q == CurrentSettings(osMode, d)
          IN  d # NoDevice =>
                 /\ e.on <=> ( /\ q.ok /\ q.g.width > 0 /\ q.g.height > 0
                               /\ d \notin DOMAIN original_settings )
                 /\ d \in DOMAIN original_settings => ~e.on
                 /\ ~q.ok => ~e.on]_vars

\* A tick inside the window found an entry for a display that is awake and
\* took it for blanked.
C11_Witness ==
    /\ last.act = "tick"
    /\ enumOk
    /\ Len(last.evals) >= 1
    /\ last.evals[1].in_sleep_time
    /\ ~last.evals[1].on
    /\ osMode[DeviceOf(last.evals[1].monitor)] = "on"
    /\ DeviceOf(last.evals[1].monitor) \in DOMAIN original_settings

(***************************************************************************)
(* C12: a monitor whose device cannot be resolved is reported "on", so a   *)
(* tick whose evaluated monitors are all unresolvable runs no Restore-all. *)
(***************************************************************************)
C12_UnresolvableIsAwake ==
    [][last'.act = "tick" =>
          ( (\A j \in DOMAIN last'.evals :
                get_device_name_by_monitor(last'.evals[j].monitor, osMode,
                                           original_settings) = NoDevice)
            => ( /\ \A j \in DOMAIN last'.evals : last'.evals[j].on
                 /\ ~Logged(last'.ops, IsRefreshAll) ) )]_vars

\* A tick outside the window evaluated a blanked display it could not
\* resolve.
C12_Witness ==
    /\ last.act = "tick"
    /\ ~enumOk
    /\ Len(last.evals) >= 1
    /\ ~last.evals[1].in_sleep_time
    /\ last.evals[1].on
    /\ IsBlanked(osMode, DeviceOf(last.evals[1].monitor))

(***************************************************************************)
(* C13: when the evaluation of a monitor raised in a tick, the enabled     *)
(* monitors after it in the list are still evaluated in that tick and the  *)
(* loop is still running afterwards, so that the next tick runs.           *)
(***************************************************************************)
C13_RaiseContained ==
    [][(last'.act = "tick" /\ last'.raised # <<>>) =>
          /\ \A r \in DOMAIN last'.raised :
                 \A i \in (last'.raised[r] + 1)..Len(preview_widgets) :
                     preview_widgets[i].auto_enabled =>
                         \/ \E j \in DOMAIN last'.evals : last'.evals[j].idx = i
                         \/ \E q \in DOMAIN last'.raised : last'.raised[q] = i
          /\ timer_thread' = "running"
          /\ auto_screen_timer_running']_vars

(***************************************************************************)
(* C14: while the shutdown flag is not set the loop thread is running.     *)
(***************************************************************************)
C14_LoopRunsUntilShutdown ==
    auto_screen_timer_running => timer_thread = "running"

(***************************************************************************)
(* C23: the polling interval is always at least 1 second, and it is 5      *)
(* after a start that found no persisted value or an unreadable one.       *)
(***************************************************************************)
C23_IntervalAtLeastOne ==
    /\ detection_interval >= 1
    /\ ( /\ steps = 0
         /\ \/ SettingsKey \notin DOMAIN config
            \/ "detection_interval" \notin DOMAIN config[SettingsKey]
            \/ ~IsInt(config[SettingsKey].detection_interval) )
       => detection_interval = 5

(***************************************************************************)
(* C20: on_closing clears both flags, joins both loop threads before it    *)
(* destroys the window, and no tick starts once the window is destroyed.   *)
(***************************************************************************)
C20_ShutdownJoinsLoops ==
       /\ last.act = "closing" =>
             /\ ~auto_screen_timer_running
             /\ ~preview_running
             /\ \E j, k, l \in DOMAIN last.ops :
                    /\ last.ops[j].op = "join_timer_thread"
                    /\ last.ops[k].op = "join_preview_thread"
                    /\ last.ops[l].op = "destroy"
                    /\ j < l
                    /\ k < l
       /\ (window = "destroyed" /\ steps > 0) => last.act # "tick"

(***************************************************************************)
(* C15: an entry whose start and end are written H:M:S, saved under a      *)
(* monitor's stable key, is loaded back for that key with the same         *)
(* enabled, start and end.                                                 *)
(***************************************************************************)
\* The text is written as H:M:S: three parts, each a number.
IsHMS(parts) == Len(parts) = 3 /\ \A f \in 1..3 : IsInt(parts[f])

C15_SaveLoadRoundTrip ==
    [][\A i \in 1..Len(preview_widgets') :
          LET w == preview_widgets'[i]
              c == load_monitor_config(w.monitor, config')
          IN  ( /\ last'.act \in {"toggle", "edit"}
                /\ Len(preview_widgets) = Len(preview_widgets')
                /\ preview_widgets[i] # w
                /\ IsHMS(FormatTime(w.start))
                /\ IsHMS(FormatTime(w.end)) )
              => ( /\ get_monitor_config_key(w.monitor) \in DOMAIN config'
                   /\ c.auto_enabled = w.auto_enabled
                   /\ c.start_time = FormatTime(w.start)
                   /\ c.end_time = FormatTime(w.end)
                   /\ create_widgets(<<w.monitor>>, config')[1] = w )]_vars

\* A zero-padded hour was typed and saved, and the monitor was switched to
\* enabled afterwards.
C15_Witness ==
    /\ last.act = "toggle"
    /\ Len(preview_widgets) >= 1
    /\ preview_widgets[1].auto_enabled
    /\ preview_widgets[1].start[1] = "07"
    /\ KeyA \in DOMAIN config
    /\ config[KeyA].auto_enabled = "True"
    /\ config[KeyA].start_time[1] = "07"

(***************************************************************************)
(* C22: after a toggle of auto-blank or an edit of one of the six time     *)
(* fields, the section stored under the monitor's stable key holds the     *)
(* enabled flag and the start and end of the widget as they are now.       *)
(***************************************************************************)
C22_ChangePersistedAtOnce ==
    [][\A i \in 1..Len(preview_widgets') :
          LET w   == preview_widgets'[i]
              key == get_monitor_config_key(w.monitor)
          IN  ( /\ last'.act \in {"toggle", "edit"}
                /\ Len(preview_widgets) = Len(preview_widgets')
                /\ preview_widgets[i] # w )
              => ( /\ key \in DOMAIN config'
                   /\ DOMAIN config'[key] = {"auto_enabled", "start_time", "end_time"}
                   /\ config'[key].auto_enabled = StrBool(w.auto_enabled)
                   /\ config'[key].start_time = FormatTime(w.start)
                   /\ config'[key].end_time = FormatTime(w.end) )]_vars

(***************************************************************************)
(* C16: loading a stable key that has no section, or whose section lacks   *)
(* an option or holds an unreadable value, returns disabled, 17:00:00 and  *)
(* 07:00:00.                                                               *)
(***************************************************************************)
C16_IncompleteLoadsDefaults ==
    \A i \in 1..Len(monitors) :
        LET key == get_monitor_config_key(monitors[i])
            c   == load_monitor_config(monitors[i], config)
            complete == /\ key \in DOMAIN config
                        /\ DOMAIN config[key] = {"auto_enabled", "start_time", "end_time"}
                        /\ IsBoolText(config[key].auto_enabled)
        IN  ~complete =>
                /\ c.auto_enabled = FALSE
                /\ IsHMS(c.start_time) /\ TimeOf(c.start_time) = <<17, 0, 0>>
                /\ IsHMS(c.end_time) /\ TimeOf(c.end_time) = <<7, 0, 0>>

(***************************************************************************)
(* C24: every zero-size mode Blank applies goes to a device whose current  *)
(* mode was read and recorded in the saved-geometry map; a Blank whose     *)
(* monitor does not resolve, or whose device's mode cannot be read,        *)
(* applies nothing and writes no entry.                                    *)
(***************************************************************************)
IsBlankOp(o) == o.op = "setMode" /\ o.width = 0 /\ o.height = 0

C24_RecordedBeforeBlank ==
    [][/\ (last'.act \in {"manual", "tick"} /\ ~ForceRefreshSucceeded(last'.ops)) =>
            \A j \in DOMAIN last'.ops :
                IsBlankOp(last'.ops[j]) =>
                    LET d == last'.ops[j].dev
                        q == CurrentSettings(osMode, d)
                    IN  /\ d # NoDevice
                        /\ q.ok
                        /\ d \in DOMAIN original_settings'
                        /\ original_settings'[d] = q.g
       /\ last'.act = "manual" =>
            \E i \in 1..Len(preview_widgets) :
                LET d == get_device_name_by_monitor(preview_widgets[i].monitor, osMode,
                                                    original_settings)
                    q == CurrentSettings(osMode, d)
                IN  \/ /\ d = NoDevice \/ ~q.ok
                       /\ last'.ops = <<>>
                       /\ original_settings' = original_settings
                       /\ osMode' = osMode
                    \/ /\ d # NoDevice /\ q.ok
                       /\ Len(last'.ops) = 1
                       /\ IsBlankOp(last'.ops[1])
                       /\ last'.ops[1].dev = d
                       /\ original_settings' = Put(original_settings, d, q.g)]_vars

\* A manual blank recorded the mode of an awake display and blanked it.
C24_Witness ==
    /\ last.act = "manual"
    /\ \E d \in DevIdx :
          /\ last.ops = <<SetModeOp(d, 0, 0, TRUE)>>
          /\ IsBlanked(osMode, d)
          /\ d \in DOMAIN original_settings
          /\ original_settings[d] = Native(d)

(***************************************************************************)
(* C25: when restore_all_screens replays the saved geometry device by      *)
(* device (force_refresh_displays having failed), an entry leaves the map  *)
(* only if the restore call of its own device succeeded.                   *)
(***************************************************************************)
C25_EntryRemovedOnlyWhenRestored ==
    [][(last'.act = "restore" /\ Logged(last'.ops, IsRefreshAll)
                             /\ ~ForceRefreshSucceeded(last'.ops)) =>
          \A d \in DOMAIN original_settings :
              d \notin DOMAIN original_settings' =>
                  \E j \in DOMAIN last'.ops :
                      /\ IsSetMode(last'.ops[j])
                      /\ last'.ops[j].dev = d
                      /\ last'.ops[j].ok]_vars

(***************************************************************************)
(* C26: when a tick has blanked an enabled monitor inside its window, the  *)
(* tick after it, still inside that window, issues no display-mode change  *)
(* and leaves the saved-geometry map as it is.                             *)
(***************************************************************************)
C26_BlankedStaysQuiet ==
    [][\A i \in 1..Len(preview_widgets) :
          LET w == preview_widgets[i]
              d == DeviceOf(w.monitor)
          IN  ( /\ last.act = "tick"
                /\ \E j \in DOMAIN last.ops :
                      IsBlankOp(last.ops[j]) /\ last.ops[j].dev = d /\ last.ops[j].ok
                /\ \E j \in DOMAIN last.evals : last.evals[j].monitor = w.monitor
                /\ w.auto_enabled
                /\ d \in schedBlanked
                /\ IsBlanked(osMode, d)
                /\ d \in DOMAIN original_settings
                /\ last'.act = "tick"
                /\ InWindow(TimeOf(w.start), TimeOf(w.end), now') )
              => ( /\ last'.ops = <<>>
                   /\ original_settings' = original_settings )]_vars

(***************************************************************************)
(* C27: with two enabled monitors that have different windows, a monitor   *)
(* the scheduler blanked stays blanked and keeps its entry over every tick *)
(* inside its own window, whatever the tick does for the other monitor.    *)
(***************************************************************************)
\* Widget i is enabled, the scheduler blanked its display, and the tick
\* being taken reads a time inside its window; the other widget is enabled
\* with another window.
C27_Case(i) ==
    LET w == preview_widgets[i]
        d == DeviceOf(w.monitor)
    IN  /\ Len(preview_widgets) = 2
        /\ w.auto_enabled
        /\ preview_widgets[3 - i].auto_enabled
        /\ <<w.start, w.end>> # <<preview_widgets[3 - i].start, preview_widgets[3 - i].end>>
        /\ d \in schedBlanked
        /\ IsBlanked(osMode, d)
        /\ d \in DOMAIN original_settings
        /\ last'.act = "tick"
        /\ InWindow(TimeOf(w.start), TimeOf(w.end), now')

C27_BlankedStaysInOwnWindow ==
    [][\A i \in 1..Len(preview_widgets) :
          LET d == DeviceOf(preview_widgets[i].monitor)
          IN  C27_Case(i) =>
                  /\ IsBlanked(osMode', d)
                  /\ d \in DOMAIN original_settings'
                  /\ original_settings'[d] = original_settings[d]]_vars

\* Amended: it stays blanked with its entry unless force_refresh_displays
\* succeeded in the tick (the Restore-all of the other monitor); then its
\* entry is dropped with all the others, and it is awake again when
\* ChangeDisplaySettings(None, 0) was what succeeded.
C27_BlankedUnlessRestoreAll ==
    [][\A i \in 1..Len(preview_widgets) :
          LET d == DeviceOf(preview_widgets[i].monitor)
          IN  C27_Case(i) =>
                  /\ ~ForceRefreshSucceeded(last'.ops) =>
                         /\ osMode'[d] = osMode[d]
                         /\ d \in DOMAIN original_settings'
                         /\ original_settings'[d] = original_settings[d]
                  /\ ForceRefreshSucceeded(last'.ops) => DOMAIN original_settings' = {}
                  /\ (\E j \in DOMAIN last'.ops : IsRefreshAll(last'.ops[j]) /\ last'.ops[j].ok)
                         => osMode'[d] = "on"]_vars

\* A tick found the first monitor blanked inside its window and the second
\* one blanked outside its own; its Restore-all woke both.
C27_Witness ==
    /\ last.act = "tick"
    /\ Len(last.evals) = 2
    /\ last.evals[1].in_sleep_time /\ ~last.evals[1].on
    /\ ~last.evals[2].in_sleep_time /\ ~last.evals[2].on
    /\ last.ops = <<RefreshAllOp(TRUE)>>
    /\ osMode[DeviceOf(last.evals[1].monitor)] = "on"
    /\ DOMAIN original_settings = {}

(***************************************************************************)
(* C29: reset_displays returns normally, and either force_refresh_displays *)
(* succeeded, the saved-geometry map is empty and the monitor list is the  *)
(* current enumeration, or it did not and the map, the monitor list and    *)
(* the schedule entries are what they were.                                *)
(***************************************************************************)
C29_ResetAllOrNothing ==
    [][last'.act = "reset" =>
          /\ last'.raised = <<>>
          /\ Logged(last'.ops, IsRefreshAll)
          /\ IF ForceRefreshSucceeded(last'.ops)
             THEN /\ DOMAIN original_settings' = {}
                  /\ monitors' = GetScreenInfo(osMode')
             ELSE /\ original_settings' = original_settings
                  /\ monitors' = monitors
                  /\ preview_widgets' = preview_widgets
                  /\ config' = config]_vars

\* A reset whose refresh failed left the entries in place.
C29_Witness ==
    /\ last.act = "reset"
    /\ Logged(last.ops, IsRefreshAll)
    /\ ~ForceRefreshSucceeded(last.ops)
    /\ DOMAIN original_settings # {}
    /\ \E d \in DOMAIN original_settings : IsBlanked(osMode, d)

(***************************************************************************)
(* C30: two different monitors of the list never resolve to the same       *)
(* device, whether or not one of them is blanked.                          *)
(***************************************************************************)
C30_DistinctMonitorsDistinctDevices ==
    \A i, j \in 1..Len(monitors) :
        LET di == get_device_name_by_monitor(monitors[i], osMode, original_settings)
            dj == get_device_name_by_monitor(monitors[j], osMode, original_settings)
        IN  (i # j /\ di # NoDevice /\ dj # NoDevice) => di # dj

(***************************************************************************)
(* C28: at most one update_previews loop is alive at any time.             *)
(***************************************************************************)
\* The update_previews threads that are alive.
LivePreviews == stale_previews + (IF preview_thread = "running" THEN 1 ELSE 0)

C28_OnePreviewLoop ==
    LivePreviews <= 1

(***************************************************************************)
(* C21: the scheduler thread and the UI thread are never both inside a     *)
(* mutation of the saved-geometry map.                                     *)
(***************************************************************************)
\* Thread t is between the test for the map and the insert into it.
InMutation(t) == inflight[t].pc = "store"

C21_MapMutationsExclusive ==
    ~(InMutation("timer") /\ InMutation("ui"))

(***************************************************************************)
(* C18: the device get_device_name_by_monitor returns for a monitor is one *)
(* whose current mode, or whose saved geometry, has the monitor's position *)
(* and size; otherwise it returns no device.                               *)
(***************************************************************************)
C18_ResolvedByGeometryOnly ==
    \A i \in 1..Len(preview_widgets) :
        LET m == preview_widgets[i].monitor
            d == get_device_name_by_monitor(m, osMode, original_settings)
            q == CurrentSettings(osMode, d)
        IN  d # NoDevice =>
                \/ q.ok /\ SameGeometry(q.g, m)
                \/ d \in DOMAIN original_settings /\ SameGeometry(original_settings[d], m)

(***************************************************************************)
(* C19: a blanked device whose saved geometry has the monitor's position   *)
(* and size is the device get_device_name_by_monitor returns for that      *)
(* monitor, whether its mode query fails or reports a zero size.           *)
(***************************************************************************)
C19_BlankedResolvedBySaved ==
    \A i \in 1..Len(preview_widgets), d \in DevIdx :
        ( /\ IsBlanked(osMode, d)
          /\ d \in DOMAIN original_settings
          /\ SameGeometry(original_settings[d], preview_widgets[i].monitor) )
        => get_device_name_by_monitor(preview_widgets[i].monitor, osMode,
                                      original_settings) = d

(***************************************************************************)
(* C17: when the driver puts a display under another device name, every    *)
(* monitor keeps its stable key, its schedule entry, and the saved         *)
(* geometry recorded for it stays with the device that now carries it.     *)
(***************************************************************************)
C17_BindingSurvivesReassignment ==
    [][last'.act = "reassign" =>
          /\ \A i \in 1..Len(monitors) :
                 \E d \in DevIdx :
                    /\ SameGeometry(Native(d)', monitors[i])
                    /\ get_monitor_config_key(monitors'[i]) = get_monitor_config_key(monitors[i])
                    /\ load_monitor_config(monitors'[i], config')
                           = load_monitor_config(monitors[i], config)
          /\ \A d \in DOMAIN original_settings :
                 (IsBlanked(osMode, d) /\ Native(d) = original_settings[d])
                 => \E e \in DOMAIN original_settings' :
                        /\ original_settings'[e] = original_settings[d]
                        /\ Native(e)' = original_settings[d]]_vars

====
